---- MODULE Spec2Model ----
(***************************************************************************)
(* Model of nengo/utils/function_space.py: generate_functions,             *)
(* uniform_cube, function_values and the Function_Space class.             *)
(*                                                                         *)
(* Numbers.  radius and d are integers in a common length unit, so         *)
(* np.arange is exact.  dx = d ** k is kept as the pair (base, exp).       *)
(* np.linalg.svd(fns) is called with its default full_matrices=True: for   *)
(* an M x N argument it returns a square orthogonal M x M matrix U and     *)
(* min(M, N) singular values.  Every array that lives in sample space      *)
(* (U, basis, signals) is written in the coordinates of the columns of U,  *)
(* so U is the identity there, and an array is an integer array times      *)
(* sqrt(dx)^e: the record [nd, shape, a, e].                               *)
(***************************************************************************)
EXTENDS Integers, Sequences, FiniteSets, TLC

VARIABLES args, functions, scope, domain, fns, dx, n_basis, U, S, basis,
          calls, ret

vars == <<args, functions, scope, domain, fns, dx, n_basis, U, S, basis,
          calls, ret>>

\* Bounds of the model.
MaxDim == 3
MaxRadius == 3
MaxStep == 2
MaxTicks == 3
MaxFunctions == 3
MaxDists == 1
MaxBasis == 3

--------------------------------------------------------------------------
\* Arithmetic and array helpers (numpy semantics).

Min(a, b) == IF a < b THEN a ELSE b
Max(a, b) == IF a > b THEN a ELSE b

RECURSIVE Pow(_, _)
Pow(b, k) == IF k = 0 THEN 1 ELSE b * Pow(b, k - 1)

RECURSIVE SumSeq(_)
SumSeq(s) == IF Len(s) = 0 THEN 0 ELSE Head(s) + SumSeq(Tail(s))

\* A raised exception (shape mismatch in np.dot, size mismatch in reshape).
ValueError == [nd |-> -1, err |-> "ValueError"]
None == [nd |-> -2]
IsArr(x) == x.nd = 1 \/ x.nd = 2

A1(v, e) == [nd |-> 1, shape |-> <<Len(v)>>, a |-> v, e |-> e]

\* ndarray.T
T(A) ==
    IF A.nd = 1 THEN A
    ELSE [nd |-> 2, shape |-> <<A.shape[2], A.shape[1]>>,
          a |-> [j \in 1..A.shape[2] |-> [i \in 1..A.shape[1] |-> A.a[i][j]]],
          e |-> A.e]

\* np.dot for the operand ranks the class uses.
dot(A, B) ==
    CASE A.nd = 2 /\ B.nd = 1 ->
           IF A.shape[2] # B.shape[1] THEN ValueError
           ELSE A1([i \in 1..A.shape[1] |->
                      SumSeq([k \in 1..A.shape[2] |-> A.a[i][k] * B.a[k]])],
                   A.e + B.e)
      [] A.nd = 1 /\ B.nd = 2 ->
           IF A.shape[1] # B.shape[1] THEN ValueError
           ELSE A1([j \in 1..B.shape[2] |->
                      SumSeq([k \in 1..A.shape[1] |-> A.a[k] * B.a[k][j]])],
                   A.e + B.e)
      [] A.nd = 2 /\ B.nd = 2 ->
           IF A.shape[2] # B.shape[1] THEN ValueError
           ELSE [nd |-> 2, shape |-> <<A.shape[1], B.shape[2]>>,
                 a |-> [i \in 1..A.shape[1] |-> [j \in 1..B.shape[2] |->
                          SumSeq([k \in 1..A.shape[2] |-> A.a[i][k] * B.a[k][j]])]],
                 e |-> A.e + B.e]

\* ndarray.reshape((n,))
reshape(A, n) ==
    IF A.nd = 1
    THEN IF A.shape[1] = n THEN A ELSE ValueError
    ELSE IF A.shape[1] * A.shape[2] # n THEN ValueError
         ELSE A1([q \in 1..n |-> A.a[((q - 1) \div A.shape[2]) + 1]
                                     [((q - 1) % A.shape[2]) + 1]], A.e)

\* A[:, :stop]
SliceCols(A, stop) ==
    LET c == IF stop < 0 THEN Max(A.shape[2] + stop, 0) ELSE Min(stop, A.shape[2])
    IN  [nd |-> 2, shape |-> <<A.shape[1], c>>,
         a |-> [i \in 1..A.shape[1] |-> SubSeq(A.a[i], 1, c)], e |-> A.e]

\* A / np.sqrt(self.dx)   and   A * self.dx
DivSqrtDx(A) == [A EXCEPT !.e = @ - 1]
TimesDx(A) == IF IsArr(A) THEN [A EXCEPT !.e = @ + 2] ELSE A

\* np.arange(start, stop, step) for integers, step > 0
arange(start, stop, step) ==
    LET len == Max(0, (stop - start + step - 1) \div step)
    IN  [k \in 1..len |-> start + (k - 1) * step]

--------------------------------------------------------------------------
\* generate_functions

\* arg_dist.sample(n): distribution number k returns n values; the values are
\* symbolic and pairwise distinct.
sample(dist, n) == [i \in 1..n |-> 10 * dist + i]

generate_functions(n, arg_dists) ==
    [functions |-> [q \in 1..n |-> [i |-> q - 1]],
     scope |-> [arg_samples |-> [k \in 1..Len(arg_dists) |-> sample(arg_dists[k], n)],
                i |-> n - 1],
     calls |-> [k \in 1..Len(arg_dists) |-> <<"sample", arg_dists[k], n>>]]

\* Late binding: the closure reads the enclosing loop variable when called.
func_late(f, sc, point) ==
    [fn |-> "function",
     args |-> <<point>> \o [k \in 1..Len(sc.arg_samples) |-> sc.arg_samples[k][sc.i + 1]]]

\* func(point, i=i): the value function(point, arg_samples[0][i], ...)
func(f, sc, point) ==
    [fn |-> "function",
     args |-> <<point>> \o [k \in 1..Len(sc.arg_samples) |-> sc.arg_samples[k][f.i + 1]]]

--------------------------------------------------------------------------
\* uniform_cube

\* np.vstack(map(np.ravel, np.meshgrid(axis, ..., axis))), indexing='xy':
\* row k of the result is the k-th coordinate array flattened row-major; with
\* 'xy' indexing the first two mesh axes are swapped.
meshgrid_ravel(axis, N) ==
    LET m == Len(axis)
        digit(p, t) == ((p - 1) \div Pow(m, N - t)) % m
        ax(k) == IF k = 1 THEN 2 ELSE IF k = 2 THEN 1 ELSE k
    IN  [k \in 1..N |-> [p \in 1..Pow(m, N) |-> axis[digit(p, ax(k)) + 1]]]

uniform_cube(domain_dim, radius, d) ==
    IF domain_dim = 1
    THEN LET domain_points == arange(-radius, radius, d)
         IN  [j \in 1..Len(domain_points) |-> <<domain_points[j]>>]
    ELSE meshgrid_ravel(arange(-radius, radius, d), domain_dim)

--------------------------------------------------------------------------
\* function_values

function_values(fs, sc, domain_points) ==
    [j \in 1..Len(domain_points) |->
        [i \in 1..Len(fs) |-> func(fs[i], sc, domain_points[j])]]

\* The calls of the base function that function_values makes, in order.
function_calls(fs, domain_points) ==
    [q \in 1..(Len(domain_points) * Len(fs)) |->
        <<"function", ((q - 1) \div Len(fs)) + 1, ((q - 1) % Len(fs)) + 1>>]

--------------------------------------------------------------------------
\* Function_Space

\* The reduced decomposition (full_matrices=False): U is M x min(M, N).
svd_reduced(F) ==
    LET M == Len(F)
        N == Len(F[1])
        K == Min(M, N)
    IN  [U |-> [nd |-> 2, shape |-> <<M, K>>,
                a |-> [i \in 1..M |-> [j \in 1..K |-> IF i = j THEN 1 ELSE 0]],
                e |-> 0],
         S |-> A1([j \in 1..K |-> j], 0)]

\* np.linalg.svd(fns): U is M x M, S has min(M, N) entries.
svd(F) ==
    LET M == Len(F)
        N == Len(F[1])
    IN  [U |-> [nd |-> 2, shape |-> <<M, M>>,
                a |-> [i \in 1..M |-> [j \in 1..M |-> IF i = j THEN 1 ELSE 0]],
                e |-> 0],
         S |-> A1([j \in 1..Min(M, N) |-> j], 0)]

Function_Space_init(a) ==
    LET dom == uniform_cube(a.domain_dim, a.radius, a.d)
        g == generate_functions(a.n_functions, a.dist_args)
        F == function_values(g.functions, g.scope, dom)
        usv == svd(F)
    IN  [functions |-> g.functions, scope |-> g.scope,
         domain |-> dom, fns |-> F,
         dx |-> [base |-> a.d, exp |-> Len(dom[1])],
         n_basis |-> a.n_basis,
         U |-> usv.U, S |-> usv.S,
         basis |-> DivSqrtDx(SliceCols(usv.U, a.n_basis)),
         calls |-> g.calls \o function_calls(g.functions, dom) \o <<<<"svd", 0, 0>>>>]

\* Constructor arguments.
Ticks(radius, d) == (2 * radius + d - 1) \div d

Args ==
    { a \in [domain_dim : 1..MaxDim, radius : 1..MaxRadius, d : 1..MaxStep,
             n_functions : 1..MaxFunctions, n_basis : 1..MaxBasis,
             dist_args : {[k \in 1..nd |-> k] : nd \in 0..MaxDists}] :
        /\ a.d < 2 * a.radius
        /\ Ticks(a.radius, a.d) <= MaxTicks }

Init ==
    \E a \in Args :
        LET o == Function_Space_init(a)
        IN  /\ args = a
            /\ functions = o.functions
            /\ scope = o.scope
            /\ domain = o.domain
            /\ fns = o.fns
            /\ dx = o.dx
            /\ n_basis = o.n_basis
            /\ U = o.U
            /\ S = o.S
            /\ basis = o.basis
            /\ calls = o.calls
            /\ ret = [op |-> "Function_Space", arg |-> None, val |-> None, src |-> None]

\* Slices the current (already truncated) basis instead of the stored U.
select_top_basis_reslice(k) ==
    /\ n_basis' = k
    /\ basis' = SliceCols(basis, k)
    /\ ret' = [op |-> "select_top_basis", arg |-> [nd |-> 0, k |-> k],
               val |-> None, src |-> None]
    /\ UNCHANGED <<args, functions, scope, domain, fns, dx, U, S, calls>>

\* Replaces the basis but forgets to store the new n_basis.
select_top_basis_stale_n(k) ==
    /\ basis' = DivSqrtDx(SliceCols(U, k))
    /\ ret' = [op |-> "select_top_basis", arg |-> [nd |-> 0, k |-> k],
               val |-> None, src |-> None]
    /\ UNCHANGED <<args, functions, scope, domain, fns, dx, n_basis, U, S, calls>>

select_top_basis(k) ==
    /\ n_basis' = k
    /\ basis' = DivSqrtDx(SliceCols(U, k))
    /\ ret' = [op |-> "select_top_basis", arg |-> [nd |-> 0, k |-> k],
               val |-> None, src |-> None]
    /\ UNCHANGED <<args, functions, scope, domain, fns, dx, U, S, calls>>

get_basis ==
    /\ ret' = [op |-> "get_basis", arg |-> None, val |-> basis, src |-> None]
    /\ UNCHANGED <<args, functions, scope, domain, fns, dx, n_basis, U, S, basis, calls>>

singular_values ==
    /\ ret' = [op |-> "singular_values", arg |-> None, val |-> S, src |-> None]
    /\ UNCHANGED <<args, functions, scope, domain, fns, dx, n_basis, U, S, basis, calls>>

reconstruct(coefficients) ==
    /\ ret' = [op |-> "reconstruct", arg |-> coefficients,
               val |-> dot(basis, coefficients), src |-> None]
    /\ UNCHANGED <<args, functions, scope, domain, fns, dx, n_basis, U, S, basis, calls>>

\* np.dot(self.fns.T, self.basis) * self.dx: entry (i, j) is the inner product
\* of sample column i with basis column j, kept symbolic as <<i, j>>.
encoder_coeffs ==
    /\ ret' = [op |-> "encoder_coeffs", arg |-> None,
               val |-> TimesDx([nd |-> 2, shape |-> <<Len(fns[1]), basis.shape[2]>>,
                                a |-> [i \in 1..Len(fns[1]) |->
                                         [j \in 1..basis.shape[2] |-> <<i, j>>]],
                                e |-> basis.e]),
               src |-> None]
    /\ UNCHANGED <<args, functions, scope, domain, fns, dx, n_basis, U, S, basis, calls>>

\* Never squeezes a singleton batch dimension.
signal_coeffs_value_unsqueezed(signal) ==
    TimesDx(dot(T(signal), basis))

signal_coeffs_value(signal) ==
    LET signal_coeff == TimesDx(dot(T(signal), basis))
    IN  IF ~IsArr(signal_coeff) THEN signal_coeff
        ELSE IF signal_coeff.shape[1] = 1 THEN reshape(signal_coeff, n_basis)
        ELSE signal_coeff

signal_coeffs(signal, from) ==
    /\ ret' = [op |-> "signal_coeffs", arg |-> signal,
               val |-> signal_coeffs_value(signal), src |-> from]
    /\ UNCHANGED <<args, functions, scope, domain, fns, dx, n_basis, U, S, basis, calls>>

\* A caller invokes the q-th generated function at a point.
call_function(q, point) ==
    /\ ret' = [op |-> "func", arg |-> [nd |-> 0, q |-> q, point |-> point],
               val |-> func(functions[q], scope, point), src |-> None]
    /\ UNCHANGED <<args, functions, scope, domain, fns, dx, n_basis, U, S, basis, calls>>

\* Inputs of the operations.
NGrid == Pow(Len(arange(-args.radius, args.radius, args.d)), args.domain_dim)

Coefficients == { A1([j \in 1..L |-> j + 1], 0) : L \in 1..MaxBasis }

SignalRows == {Len(domain), NGrid}

\* A signal with r rows: one-dimensional, or a batch of m columns.
Signal(r, m) ==
    IF m = 0 THEN A1([q \in 1..r |-> q], 0)
    ELSE [nd |-> 2, shape |-> <<r, m>>,
          a |-> [q \in 1..r |-> [t \in 1..m |-> q + t - 1]], e |-> 0]

Next ==
    \/ \E k \in 0..MaxBasis : select_top_basis(k)
    \/ get_basis
    \/ singular_values
    \/ \E c \in Coefficients : reconstruct(c)
    \/ encoder_coeffs
    \/ \E r \in SignalRows, m \in 0..2 : signal_coeffs(Signal(r, m), None)
    \/ /\ ret.op = "reconstruct"
       /\ IsArr(ret.val)
       /\ signal_coeffs(ret.val, ret.arg)
    \/ \E q \in 1..Len(functions), j \in 1..Len(domain) : call_function(q, domain[j])

Spec == Init /\ [][Next]_vars

--------------------------------------------------------------------------
\* Properties.

\* The object exactly as the constructor built it from the arguments.
Constructed == Function_Space_init(args)

\* B is the first k columns of A, rescaled by sqrt(dx)^de.
FirstColumns(B, A, k, de) ==
    /\ B.nd = 2
    /\ B.shape = <<A.shape[1], k>>
    /\ B.e = A.e + de
    /\ \A i \in 1..A.shape[1], j \in 1..k : B.a[i][j] = A.a[i][j]

\* Number of ticks per axis when 2*radius/d is whole.
WholeTicks == (2 * args.radius) % args.d = 0
AxisTicks == (2 * args.radius) \div args.d

\* C1: after any sequence of select_top_basis calls whose last argument is k,
\* 1 <= k <= columns of U, the basis that get_basis() returns is exactly the
\* first k columns of the construction-time U divided by sqrt(dx) (for k below
\* the original n_basis: the first k columns of the original basis), whatever
\* the earlier truncations were, and singular_values() returns the sequence
\* computed at construction.
C1_TruncationConsistency ==
    LET o == Constructed
    IN  /\ ret.op = "select_top_basis" => n_basis = ret.arg.k
        /\ n_basis \in 1..o.U.shape[2] =>
              /\ FirstColumns(basis, o.U, n_basis, -1)
              /\ n_basis < args.n_basis => FirstColumns(basis, o.basis, n_basis, 0)
        /\ ret.op = "get_basis" => ret.val = basis
        /\ S = o.S
        /\ ret.op = "singular_values" => ret.val = o.S

C1_Witness ==
    /\ ret.op = "get_basis"
    /\ n_basis >= 1
    /\ n_basis < args.n_basis
    /\ n_basis < U.shape[2]

\* C2: when 2*radius/d is a whole number m, uniform_cube returns m^domain_dim
\* rows of domain_dim coordinates each, every coordinate in [-radius, radius),
\* and every combination of axis ticks is exactly one row.
C2_GridShape ==
    WholeTicks =>
        LET ticks == {-args.radius + t * args.d : t \in 0..(AxisTicks - 1)}
        IN  /\ Len(domain) = Pow(AxisTicks, args.domain_dim)
            /\ \A j \in 1..Len(domain) :
                  /\ Len(domain[j]) = args.domain_dim
                  /\ \A c \in 1..Len(domain[j]) :
                        domain[j][c] >= -args.radius /\ domain[j][c] < args.radius
            /\ \A pt \in [1..args.domain_dim -> ticks] :
                  Cardinality({j \in 1..Len(domain) : domain[j] = pt}) = 1

\* C3: the stored volume element dx equals d raised to the power domain_dim.
\* (For the positive integers of the model d^a = d^b iff a = b or d = 1.)
C3_VolumeElement ==
    /\ dx.base = args.d
    /\ dx.exp = args.domain_dim \/ args.d = 1

\* C4: fns has one row per grid point of the hypercube and one column per
\* function, entry (j, i) is the i-th generated function at the j-th grid point,
\* and every call of the base function gets a point of domain_dim coordinates.
C4_SampleMatrix ==
    /\ Len(fns) = NGrid
    /\ \A j \in 1..Len(fns) :
          /\ Len(fns[j]) = args.n_functions
          /\ \A i \in 1..Len(fns[j]) :
                /\ fns[j][i] = func(functions[i], scope, domain[j])
                /\ Len(fns[j][i].args[1]) = args.domain_dim

C6_BoundByValue ==
    /\ Len(functions) = args.n_functions
    /\ ret.op = "func" =>
          /\ ret.val.fn = "function"
          /\ ret.val.args =
                <<ret.arg.point>> \o
                [k \in 1..Len(args.dist_args) |->
                    sample(args.dist_args[k], args.n_functions)[ret.arg.q]]

C6_Witness ==
    /\ ret.op = "func"
    /\ ret.arg.q < Len(functions)
    /\ Len(args.dist_args) >= 1

\* C7: over the whole life of the object each distribution is sampled exactly
\* once, with n_functions, before the first evaluation of the base function;
\* the base function is evaluated exactly once per grid-point/function pair,
\* and the decomposition is computed once; no operation adds a call.
C7_CallsOnce ==
    LET idx(e) == {q \in 1..Len(calls) : calls[q] = e}
        fcalls == {q \in 1..Len(calls) : calls[q][1] = "function"}
        scalls == {q \in 1..Len(calls) : calls[q][1] = "sample"}
    IN  /\ Cardinality(scalls) = Len(args.dist_args)
        /\ \A k \in 1..Len(args.dist_args) :
              Cardinality(idx(<<"sample", args.dist_args[k], args.n_functions>>)) = 1
        /\ \A q \in scalls, r \in fcalls : q < r
        /\ Cardinality(fcalls) = NGrid * args.n_functions
        /\ \A g \in 1..NGrid, i \in 1..args.n_functions :
              Cardinality(idx(<<"function", g, i>>)) = 1
        /\ Cardinality(idx(<<"svd", 0, 0>>)) = 1

\* C8: round trip.  With 1 <= n_basis <= n_functions and n_basis <= n_points,
\* for every coefficient vector c of length n_basis, reconstruct(c) is a signal
\* and signal_coeffs of it is c again.
C8_RoundTrip ==
    LET pre == n_basis >= 1 /\ n_basis <= args.n_functions /\ n_basis <= NGrid
    IN  /\ (ret.op = "reconstruct" /\ pre /\ ret.arg.shape[1] = n_basis) =>
              ret.val.nd = 1
        /\ (ret.op = "signal_coeffs" /\ pre /\ ret.src.nd = 1
              /\ ret.src.shape[1] = n_basis) =>
              ret.val.nd = 1 /\ ret.val.a = ret.src.a /\ ret.val.e = ret.src.e

\* C9 as stated: U has n_points rows and min(n_points, n_functions) columns, as
\* many as there are singular values, so the basis never has more columns than
\* singular_values() has entries.
C9_ReducedU ==
    /\ U.shape = <<NGrid, Min(NGrid, args.n_functions)>>
    /\ U.shape[2] = S.shape[1]
    /\ basis.shape[2] <= S.shape[1]

\* C9 amended: U is square, M x M for the M rows of the stored sample matrix,
\* there are min(M, n_functions) singular values, and the basis has
\* min(n_basis, M) columns: never more than U has.
C9_SquareU ==
    /\ U.shape = <<Len(fns), Len(fns)>>
    /\ S.shape = <<Min(Len(fns), args.n_functions)>>
    /\ basis.shape = <<Len(fns), Min(n_basis, Len(fns))>>
    /\ basis.shape[2] <= U.shape[2]

C9_Witness ==
    /\ ret.op = "select_top_basis"
    /\ basis.shape[2] > S.shape[1]

====
